---- MODULE Spec2Model ----
(***************************************************************************)
(* Model of week1/llm_agent.py: the DNS watcher agent.  The deterministic  *)
(* tools (stabilize_dns, the state store, yaml_update, git_commit_push),   *)
(* the tool dispatcher call_tool and the orchestration loop main.          *)
(*                                                                         *)
(* Texts (file contents, IP addresses, key paths) are sequences of one-    *)
(* character strings, so that the regular expression of yaml_update is     *)
(* modelled by what it matches.  Messages, tool names and JSON strings are *)
(* TLA+ strings.                                                           *)
(***************************************************************************)
EXTENDS Integers, Sequences, FiniteSets, TLC

VARIABLES
    \* ---- stabilize_dns (one call in progress) ----
    queries,      \* the argument `queries` of the call
    dnsPc,        \* "polling" | "returned"
    attempt,      \* number of dns_once calls made so far
    stable,       \* local `stable`
    count,        \* local `count`
    all_last,     \* local `all_last`
    dnsResult,    \* the returned {"primary", "all_ipv4"}, NoResult before
    obs,          \* summary of what the resolver has answered so far
    \* ---- the workspace the tools act on ----
    file,         \* content of VALUES_FILE
    stateFile,    \* content of STATE_FILE, NoFile when it does not exist
    head,         \* content of VALUES_FILE in the last local commit
    commits,      \* number of commits created by git_commit_push
    pushes,       \* number of those commits that reached origin/<branch>
    yamlCalls,    \* records of the last two yaml_update calls, oldest first
    gitCalls,     \* records of the last two git_commit_push calls, oldest first
    mutations,    \* number of yaml_update and replace_ip_literal calls made
    \* ---- the other tools, called directly ----
    litCalls,     \* record of the last replace_ip_literal call, <<>> before
    storeLog,     \* what the state store was last told and last answered
    notifyLog,    \* record of the last notify_teams call, <<>> before
    dnsOnceLog,   \* record of the last dns_once call, <<>> before
    TEAMS_WEBHOOK_URL,  \* the module constant of line 35, read from the environment
    \* ---- main ----
    pc,           \* "AWAITING_MODEL" | "EXECUTING_TOOLS" | "DONE" | "RAISED"
    messages,     \* the list `messages`
    msg,          \* resp.choices[0].message of the current iteration
    tcIdx,        \* index into msg.tool_calls of the next call to execute
    printed,      \* what main has printed, NotPrinted before
    rounds,       \* number of responses with tool calls received
    createCalls,  \* number of client.chat.completions.create calls
    attempts,     \* create calls made for the current AWAITING_MODEL step
    lastFailure,  \* class of the last create failure: "none"|"transient"|"fatal"
    raisedBy,     \* what raised out of main: "none"|"create"|"json.loads"
    pushedInRun,  \* a git_commit_push of this run returned {"pushed": true}
    toolLog,      \* per call_tool call of this response: [id, name, result]
    baseLen,      \* len(messages) when the current response arrived
    request       \* keyword arguments of the last create call, NoResult before

dnsVars  == <<queries, dnsPc, attempt, stable, count, all_last, dnsResult, obs>>
wsVars   == <<file, stateFile, head, commits, pushes>>
logVars  == <<yamlCalls, gitCalls, mutations>>
mainVars == <<pc, messages, msg, tcIdx, printed, rounds, createCalls, attempts,
              lastFailure, raisedBy, pushedInRun, toolLog, baseLen, request>>
ioVars   == <<litCalls, storeLog, notifyLog, dnsOnceLog, TEAMS_WEBHOOK_URL>>
vars     == <<dnsVars, wsVars, logVars, mainVars, ioVars>>

\* ------------------------------------------------------------------------
\* Bounds of the model
\* ------------------------------------------------------------------------
MaxQueries == 2
MaxCommits == 2
MaxRounds == 2
MaxToolCalls == 2
MaxMutations == 2

\* ------------------------------------------------------------------------
\* Texts
\* ------------------------------------------------------------------------
\* a text no file content equals, and a record no result equals
NoFile == <<"<no file>">>
NoResult == [pending |-> TRUE]
NotPrinted == "<nothing printed>"

IP_A == <<"1", ".", "1", ".", "1", ".", "1">>
IP_B == <<"2", ".", "2", ".", "2", ".", "2">>

\* Python's \s within the characters the model uses
IsSpace(c) == c \in {" ", "\n", "\r"}

RECURSIVE ReadText(_)
\* Path.read_text(): text mode with universal newlines, "\r\n" and "\r" are
\* read as "\n".  Path.write_text() writes "\n" as os.linesep, which is "\n"
\* where the agent runs (POSIX: it shells out to git and nslookup), so what
\* is written is the text itself.
ReadText(b) ==
    IF b = <<>> THEN <<>>
    ELSE IF Head(b) = "\r"
         THEN <<"\n">> \o ReadText(IF Len(b) >= 2 /\ b[2] = "\n"
                                    THEN SubSeq(b, 3, Len(b)) ELSE Tail(b))
         ELSE <<Head(b)>> \o ReadText(Tail(b))

RECURSIVE SkipSpaces(_, _)
\* index of the first character at or after i that \s does not match
SkipSpaces(t, i) ==
    IF i <= Len(t) /\ IsSpace(t[i]) THEN SkipSpaces(t, i + 1) ELSE i

RECURSIVE LineEnd(_, _)
\* first position at or after i where $ (MULTILINE) matches
LineEnd(t, i) ==
    IF i > Len(t) \/ t[i] = "\n" THEN i ELSE LineEnd(t, i + 1)

StartsWithAt(t, i, k) ==
    /\ i + Len(k) - 1 <= Len(t)
    /\ SubSeq(t, i, i + Len(k) - 1) = k

\* ^ under re.MULTILINE
IsLineStart(t, p) == p = 1 \/ (p - 1 <= Len(t) /\ t[p - 1] = "\n")

RECURSIVE LastDot(_, _)
LastDot(s, i) == IF i = 0 \/ s[i] = "." THEN i ELSE LastDot(s, i - 1)

\* keyPath.split(".")[-1]
LastSegment(keyPath) == SubSeq(keyPath, LastDot(keyPath, Len(keyPath)) + 1, Len(keyPath))

\* ------------------------------------------------------------------------
\* The workspace: what the tools read and write
\* ------------------------------------------------------------------------
World == [file |-> file, stateFile |-> stateFile, head |-> head,
          commits |-> commits, pushes |-> pushes]

\* ------------------------------------------------------------------------
\* State store (llm_agent.py 84-90)
\* ------------------------------------------------------------------------
RECURSIVE LStrip(_)
LStrip(s) == IF s # <<>> /\ IsSpace(Head(s)) THEN LStrip(Tail(s)) ELSE s

RECURSIVE RStrip(_)
RStrip(s) ==
    IF s # <<>> /\ IsSpace(s[Len(s)]) THEN RStrip(SubSeq(s, 1, Len(s) - 1)) ELSE s

\* str.strip()
Strip(s) == LStrip(RStrip(s))

\* (the file content handed back as it is)
get_last_ip_unstripped(w) ==
    [result |-> [ip |-> IF w.stateFile = NoFile THEN <<>> ELSE ReadText(w.stateFile)],
     raised |-> FALSE,
     world  |-> w]
get_last_ip(w) ==
    [result |-> [ip |-> IF w.stateFile = NoFile THEN <<>>
                        ELSE Strip(ReadText(w.stateFile))],
     raised |-> FALSE,
     world  |-> w]

set_last_ip(w, ip) ==
    [result |-> [ok |-> TRUE],
     raised |-> FALSE,
     world  |-> [w EXCEPT !.stateFile = ip]]

\* ------------------------------------------------------------------------
\* yaml_update (llm_agent.py 98-116)
\* ------------------------------------------------------------------------
\* The match of  ^(\s*)<key>\s*:\s*.*?$  (re.MULTILINE) that starts at p.
\* \s also matches "\n", so the indentation group and the blanks after the
\* colon may run over line ends; .*? then runs to the end of that line.
YamlMatchAt(t, p, key) ==
    LET q == SkipSpaces(t, p)
        r == SkipSpaces(t, q + Len(key))
        s == SkipSpaces(t, r + 1)
    IN  [ok     |-> /\ IsLineStart(t, p)
                    /\ StartsWithAt(t, q, key)
                    /\ r <= Len(t)
                    /\ t[r] = ":",
         indent |-> SubSeq(t, p, q - 1),
         end    |-> LineEnd(t, s)]

\* positions where the pattern matches, the leftmost is the one subn replaces
YamlMatches(t, key) == {p \in 1..(Len(t) + 1) : YamlMatchAt(t, p, key).ok}

Min(S) == CHOOSE x \in S : \A y \in S : x <= y

\* _repl: f'{indent}{key}: "{newValue}"'
YamlRepl(indent, key, newValue) ==
    indent \o key \o <<":", " ", "\"">> \o newValue \o <<"\"">>

\* pattern.subn(_repl, text, count=1): <<new_text, n>>
YamlSubn(text, key, newValue) ==
    IF YamlMatches(text, key) = {}
    THEN <<text, 0>>
    ELSE LET p == Min(YamlMatches(text, key))
             m == YamlMatchAt(text, p, key)
         IN  <<SubSeq(text, 1, p - 1)
                 \o YamlRepl(m.indent, key, newValue)
                 \o SubSeq(text, m.end, Len(text)),
               1>>

\* wrote: the call went through Path(path).write_text (line 115)
yaml_update(w, keyPath, newValue) ==
    LET text == ReadText(w.file)
        key  == LastSegment(keyPath)
        sub  == YamlSubn(text, key, newValue)
    IN  IF sub[2] = 0
        THEN [result |-> [changed |-> FALSE, content |-> text],
              raised |-> FALSE,
              wrote  |-> FALSE,
              world  |-> w]
        ELSE [result |-> [changed |-> TRUE, content |-> sub[1]],
              raised |-> FALSE,
              wrote  |-> TRUE,
              world  |-> [w EXCEPT !.file = sub[1]]]

\* ------------------------------------------------------------------------
\* replace_ip_literal (llm_agent.py 118-131)
\* ------------------------------------------------------------------------
IsDigit(c) == c \in {"0", "1", "2", "3", "4", "5", "6", "7", "8", "9"}

\* Python's \w within the characters the model uses: letters, digits, "_"
IsWord(c) == c \notin {" ", "\n", "\r", ".", ":", "\"", "#", "*"}

RECURSIVE DigitRun(_, _)
\* number of digits in a row from position i on
DigitRun(t, i) ==
    IF i <= Len(t) /\ IsDigit(t[i]) THEN 1 + DigitRun(t, i + 1) ELSE 0

\* The match of  \b(?:\d{1,3}\.){3}\d{1,3}\b  that starts at p.  Each \d{1,3}
\* has to take the whole run of digits it stands on: the first three are
\* followed by a dot, after the fourth comes a word boundary.
Ipv4MatchAt(t, p) ==
    LET n1 == DigitRun(t, p)
        p2 == p + n1 + 1
        n2 == DigitRun(t, p2)
        p3 == p2 + n2 + 1
        n3 == DigitRun(t, p3)
        p4 == p3 + n3 + 1
        n4 == DigitRun(t, p4)
        Dotted(q, n) == n \in 1..3 /\ q + n <= Len(t) /\ t[q + n] = "."
    IN  [ok  |-> /\ p = 1 \/ ~IsWord(t[p - 1])
                 /\ Dotted(p, n1)
                 /\ Dotted(p2, n2)
                 /\ Dotted(p3, n3)
                 /\ n4 \in 1..3
                 /\ p4 + n4 > Len(t) \/ ~IsWord(t[p4 + n4]),
         end |-> p4 + n4]

\* start positions of matches; re.findall returns the leftmost first
Ipv4Matches(t) == {p \in 1..Len(t) : Ipv4MatchAt(t, p).ok}

\* found[0] of line 126, <<>> when found is empty
FirstIpv4(t) ==
    IF Ipv4Matches(t) = {} THEN <<>>
    ELSE LET p == Min(Ipv4Matches(t))
         IN  SubSeq(t, p, Ipv4MatchAt(t, p).end - 1)

RECURSIVE FindAllFrom(_, _)
FindAllFrom(t, i) ==
    IF i > Len(t) THEN <<>>
    ELSE IF Ipv4MatchAt(t, i).ok
         THEN <<SubSeq(t, i, Ipv4MatchAt(t, i).end - 1)>>
                \o FindAllFrom(t, Ipv4MatchAt(t, i).end)
         ELSE FindAllFrom(t, i + 1)

\* re.findall(pattern, t): the matches from left to right, none overlapping
Ipv4FindAll(t) == FindAllFrom(t, 1)

\* s in text
Contains(text, s) == \E i \in 1..(Len(text) + 1) : StartsWithAt(text, i, s)

RECURSIVE ReplaceFrom(_, _, _, _)
ReplaceFrom(t, i, old, new) ==
    IF i > Len(t) THEN <<>>
    ELSE IF StartsWithAt(t, i, old)
         THEN new \o ReplaceFrom(t, i + Len(old), old, new)
         ELSE <<t[i]>> \o ReplaceFrom(t, i + 1, old, new)

\* (a replace that finds nothing to replace)
StrReplaceNothing(text, old, new) == text
\* text.replace(old, new) for a non-empty old: every occurrence, left to right
StrReplace(text, old, new) == ReplaceFrom(text, 1, old, new)

\* wrote: the call went through Path(path).write_text (line 122 or 129)
replace_ip_literal(w, old_ip, new_ip) ==
    LET text  == ReadText(w.file)
        found == FirstIpv4(text)
    IN  IF old_ip # <<>> /\ Contains(text, old_ip)
        THEN LET new_text == StrReplace(text, old_ip, new_ip)
             IN  [result |-> [changed |-> new_text # text],
                  raised |-> FALSE,
                  wrote  |-> TRUE,
                  world  |-> [w EXCEPT !.file = new_text]]
        ELSE IF found # <<>>
        THEN LET new_text == StrReplace(text, found, new_ip)
             IN  [result |-> [changed |-> new_text # text],
                  raised |-> FALSE,
                  wrote  |-> TRUE,
                  world  |-> [w EXCEPT !.file = new_text]]
        ELSE [result |-> [changed |-> FALSE],
              raised |-> FALSE,
              wrote  |-> FALSE,
              world  |-> w]

\* ------------------------------------------------------------------------
\* notify_teams (llm_agent.py 142-160)
\* ------------------------------------------------------------------------
\* What TEAMS_WEBHOOK_URL may hold: nothing, a text without a scheme, a URL
WebhookUrls == {"", "teams-webhook", "https://hooks.example/x"}

\* urllib.request.Request(url): the constructor splits off the scheme and
\* raises ValueError("unknown url type") when there is none
UrlType(url) ==
    CASE url = "https://hooks.example/x" -> "https"
      [] OTHER -> "none"

\* How the POST of urlopen(req, timeout=10) ends
Deliveries == {"completed", "URLError", "timeout", "HTTPError"}

\* requests: HTTP requests urlopen was asked to send
notify_teams(delivery) ==
    IF TEAMS_WEBHOOK_URL = ""
    THEN [result |-> [sent |-> FALSE, reason |-> "no webhook"],
          raised |-> FALSE, requests |-> 0]
    ELSE IF UrlType(TEAMS_WEBHOOK_URL) = "none"
    THEN \* line 154 is outside the try of line 156
         [result |-> [exception |-> "ValueError"], raised |-> TRUE, requests |-> 0]
    ELSE IF delivery = "completed"
    THEN [result |-> [sent |-> TRUE, status |-> 200],
          raised |-> FALSE, requests |-> 1]
    ELSE [result |-> [sent |-> FALSE, error |-> delivery],
          raised |-> FALSE, requests |-> 1]

\* ------------------------------------------------------------------------
\* dns_once (llm_agent.py 48-61)
\* ------------------------------------------------------------------------
\* the resolver the system asks
IP_R == <<"9", ".", "9", ".", "9", ".", "9">>

\* What nslookup prints, the labels cut to their first letter.
\* S: 9.9.9.9 / A: 9.9.9.9#53 / N: h / A: 1.1.1.1
ResolverLines ==
    <<"S", ":", " ">> \o IP_R \o <<"\n", "A", ":", " ">> \o IP_R
        \o <<"#", "5", "3", "\n">>
StdoutAnswer ==
    ResolverLines \o <<"N", ":", " ", "h", "\n", "A", ":", " ">> \o IP_A \o <<"\n">>
\* the resolver's lines, then *** no answer
StdoutNoAnswer == ResolverLines \o <<"*", "*", "*", "\n">>
\* a resolver reached over IPv6 and no A record:  S: ::1 / A: ::1#53 / ***
StdoutNoIpv4 ==
    <<"S", ":", " ", ":", ":", "1", "\n", "A", ":", " ", ":", ":", "1", "#",
      "5", "3", "\n", "*", "*", "*", "\n">>

\* How subprocess.run(["nslookup", hostname], timeout=10) ends
NslookupOutcomes ==
    {[kind |-> "FileNotFoundError", returncode |-> 0, stdout |-> <<>>],
     [kind |-> "TimeoutExpired", returncode |-> 0, stdout |-> <<>>],
     [kind |-> "completed", returncode |-> 1, stdout |-> StdoutNoAnswer],
     [kind |-> "completed", returncode |-> 0, stdout |-> StdoutNoAnswer],
     [kind |-> "completed", returncode |-> 0, stdout |-> StdoutNoIpv4],
     [kind |-> "completed", returncode |-> 0, stdout |-> StdoutAnswer]}

\* How socket.getaddrinfo(hostname, None) ends: it raises, or returns one
\* entry per address and socket type
SocketOutcomes ==
    {[kind |-> "gaierror", infos |-> <<>>],
     [kind |-> "returned", infos |-> <<[family |-> "AF_INET6", addr |-> <<":", ":", "1">>]>>],
     [kind |-> "returned", infos |-> <<[family |-> "AF_INET", addr |-> IP_A],
                                       [family |-> "AF_INET", addr |-> IP_A],
                                       [family |-> "AF_INET", addr |-> IP_B]>>]}

RECURSIVE Inet4Addrs(_)
\* [a[4][0] for a in infos if a[0] == socket.AF_INET]
Inet4Addrs(infos) ==
    IF infos = <<>> THEN <<>>
    ELSE (IF Head(infos).family = "AF_INET" THEN <<Head(infos).addr>> ELSE <<>>)
            \o Inet4Addrs(Tail(infos))

RECURSIVE Dedup(_)
\* list(dict.fromkeys(l)): the first occurrence of each element, in order
Dedup(l) ==
    IF l = <<>> THEN <<>>
    ELSE LET front == Dedup(SubSeq(l, 1, Len(l) - 1))
         IN  IF \E i \in 1..Len(front) : front[i] = l[Len(l)]
             THEN front ELSE Append(front, l[Len(l)])

\* (the output of a failed nslookup parsed like that of a successful one)
dns_once_ignoring_returncode(ns, so) ==
    LET first == IF ns.kind = "completed" THEN Ipv4FindAll(ns.stdout) ELSE <<>>
    IN  IF first # <<>>
        THEN [result |-> first, raised |-> FALSE, tried |-> <<"nslookup">>]
        ELSE [result |-> IF so.kind = "returned"
                         THEN Dedup(Inet4Addrs(so.infos)) ELSE <<>>,
              raised |-> FALSE, tried |-> <<"nslookup", "socket">>]
\* tried: the lookups the call made, in order
dns_once(ns, so) ==
    LET first == IF ns.kind = "completed" /\ ns.returncode = 0
                 THEN Ipv4FindAll(ns.stdout) ELSE <<>>
    IN  IF first # <<>>
        THEN [result |-> first, raised |-> FALSE, tried |-> <<"nslookup">>]
        ELSE [result |-> IF so.kind = "returned"
                         THEN Dedup(Inet4Addrs(so.infos)) ELSE <<>>,
              raised |-> FALSE, tried |-> <<"nslookup", "socket">>]

\* ------------------------------------------------------------------------
\* git_commit_push (llm_agent.py 42-46, 133-140)
\* ------------------------------------------------------------------------
\* the two PublishResults
NoChanges == [pushed |-> FALSE, reason |-> "no changes"]
Pushed == [pushed |-> TRUE]

\* Which git command of a call exits non-zero ("none": all exit zero).
GitFailures == {"none", "add", "status", "commit", "push"}

\* (a status that is never empty)
GitStatusNeverEmpty(w) == "M"
\* `git status --porcelain` after `git add -A`: empty iff the tree equals HEAD
GitStatus(w) == IF w.file = w.head THEN "" ELSE "M"

\* (a push that exits non-zero is taken for a push that went through)
git_commit_push_unchecked_push(w, fail) ==
    IF fail = "add" THEN
        [result |-> [exception |-> "RuntimeError"], raised |-> TRUE, world |-> w,
         cmds |-> <<"add">>]
    ELSE IF fail = "status" THEN
        [result |-> [exception |-> "RuntimeError"], raised |-> TRUE, world |-> w,
         cmds |-> <<"add", "status">>]
    ELSE IF w.file = w.head THEN
        [result |-> NoChanges,
         raised |-> FALSE, world |-> w,
         cmds |-> <<"add", "status">>]
    ELSE IF fail = "commit" THEN
        [result |-> [exception |-> "RuntimeError"], raised |-> TRUE, world |-> w,
         cmds |-> <<"add", "status", "commit">>]
    ELSE
        [result |-> Pushed, raised |-> FALSE,
         world |-> [w EXCEPT !.head = w.file, !.commits = @ + 1,
                             !.pushes = IF fail = "push" THEN @ ELSE w.commits + 1],
         cmds |-> <<"add", "status", "commit", "push">>]
\* cmds: the git commands the call ran, in order; _run raises on the first
\* one that exits non-zero and the rest of the call is skipped.
git_commit_push(w, fail) ==
    IF fail = "add" THEN
        [result |-> [exception |-> "RuntimeError"], raised |-> TRUE, world |-> w,
         cmds |-> <<"add">>]
    ELSE IF fail = "status" THEN
        [result |-> [exception |-> "RuntimeError"], raised |-> TRUE, world |-> w,
         cmds |-> <<"add", "status">>]
    ELSE IF GitStatus(w) = "" THEN
        [result |-> NoChanges,
         raised |-> FALSE, world |-> w,
         cmds |-> <<"add", "status">>]
    ELSE IF fail = "commit" THEN
        [result |-> [exception |-> "RuntimeError"], raised |-> TRUE, world |-> w,
         cmds |-> <<"add", "status", "commit">>]
    ELSE IF fail = "push" THEN
        [result |-> [exception |-> "RuntimeError"], raised |-> TRUE,
         world |-> [w EXCEPT !.head = w.file, !.commits = @ + 1],
         cmds |-> <<"add", "status", "commit", "push">>]
    ELSE
        [result |-> Pushed, raised |-> FALSE,
         world |-> [w EXCEPT !.head = w.file, !.commits = @ + 1,
                             !.pushes = w.commits + 1],
         cmds |-> <<"add", "status", "commit", "push">>]

\* ------------------------------------------------------------------------
\* Inputs of the tool operations
\* ------------------------------------------------------------------------
\* k: 1.1.1.1
FileKey == <<"k", ":", " ">> \o IP_A
\* a:
\*   k: "1.1.1.1"
\* j: 2
FileIndented ==
    <<"a", ":", "\n", " ", " ", "k", ":", " ", "\"">> \o IP_A
        \o <<"\"", "\n", "j", ":", " ", "2">>
\* j: 1.1.1.1          (no line for k)
FileNoKey == <<"j", ":", " ">> \o IP_A
\* k:
\*  j: 1               (k is a mapping, its line holds no scalar)
FileMapping == <<"k", ":", "\n", " ", "j", ":", " ", "1">>
\* k: 1
\* k: 2                (the key twice)
FileTwice == <<"k", ":", " ", "1", "\n", "k", ":", " ", "2">>
\* k: "2.2.2.2"        (already in the form yaml_update writes)
FileQuoted == <<"k", ":", " ", "\"">> \o IP_B \o <<"\"">>

\* j: 1.1.1.1
\* x: 1.1.1.1          (the same address on two lines, no line for k)
FileTwoSame == <<"j", ":", " ">> \o IP_A \o <<"\n", "x", ":", " ">> \o IP_A
\* j: 1.1.1.1<CR><LF>  (a file saved with CRLF line ends)
FileCrLf == <<"j", ":", " ">> \o IP_A \o <<"\r", "\n">>

Files == {FileKey, FileIndented, FileNoKey, FileMapping, FileTwice, FileQuoted}

\* "a.k" and "j"
KeyPaths == {<<"a", ".", "k">>, <<"j">>}
NewValues == {IP_A, IP_B}

\* the files the two mutation tools are run on together
MutateFiles == {FileKey, FileNoKey, FileMapping, FileTwoSame, FileCrLf}
\* old_ip: not given, the address in the file, an address not in the file
OldIps == {<<>>, IP_A, IP_B}

\* ------------------------------------------------------------------------
\* Idle values of the parts a specification does not exercise
\* ------------------------------------------------------------------------
\* no dns_once call made yet
NoObs == [calls |-> 0, first |-> <<>>, last |-> <<>>, allSame |-> FALSE,
          allDiffer |-> FALSE, anyAddr |-> FALSE, lastAddr |-> <<>>, run |-> 0]

DnsIdle ==
    /\ queries = 0
    /\ dnsPc = "idle"
    /\ attempt = 0
    /\ stable = <<>>
    /\ count = 0
    /\ all_last = <<>>
    /\ dnsResult = NoResult
    /\ obs = NoObs

LogIdle ==
    /\ yamlCalls = <<>>
    /\ gitCalls = <<>>
    /\ mutations = 0

\* nothing asked of the state store yet
NoStoreLog == [op |-> "none", hasSet |-> FALSE, lastSet |-> <<>>, got |-> <<>>,
               changedByGet |-> FALSE, raised |-> FALSE]

IoIdle ==
    /\ litCalls = <<>>
    /\ storeLog = NoStoreLog
    /\ notifyLog = <<>>
    /\ dnsOnceLog = <<>>
    /\ TEAMS_WEBHOOK_URL = ""

MainIdle ==
    /\ pc = "idle"
    /\ messages = <<>>
    /\ msg = NoResult
    /\ tcIdx = 0
    /\ printed = NotPrinted
    /\ rounds = 0
    /\ createCalls = 0
    /\ attempts = 0
    /\ lastFailure = "none"
    /\ raisedBy = "none"
    /\ pushedInRun = FALSE
    /\ toolLog = <<>>
    /\ baseLen = 0
    /\ request = NoResult

\* ------------------------------------------------------------------------
\* The tools called directly, one call per step
\* ------------------------------------------------------------------------
\* the log keeps a call and the one before it
LastTwo(log, rec) == IF log = <<>> THEN <<rec>> ELSE <<log[Len(log)], rec>>

SetWorld(w) ==
    /\ file' = w.file
    /\ stateFile' = w.stateFile
    /\ head' = w.head
    /\ commits' = w.commits
    /\ pushes' = w.pushes

YamlUpdate ==
    /\ mutations < MaxMutations
    /\ mutations' = mutations + 1
    /\ \E keyPath \in KeyPaths, newValue \in NewValues :
        LET r == yaml_update(World, keyPath, newValue)
        IN  /\ SetWorld(r.world)
            /\ yamlCalls' = LastTwo(yamlCalls,
                           [keyPath |-> keyPath, newValue |-> newValue,
                            before |-> file, changed |-> r.result.changed,
                            content |-> r.result.content, wrote |-> r.wrote,
                            after |-> r.world.file])
            /\ UNCHANGED <<gitCalls, dnsVars, mainVars, ioVars>>

GitCommitPush ==
    /\ commits < MaxCommits
    /\ \E fail \in GitFailures :
        LET r == git_commit_push(World, fail)
        IN  /\ SetWorld(r.world)
            /\ gitCalls' = LastTwo(gitCalls,
                          [treeBefore |-> file, headBefore |-> head,
                           raised |-> r.raised, result |-> r.result,
                           cmds |-> r.cmds, fail |-> fail,
                           commitsBefore |-> commits,
                           commitsAfter |-> r.world.commits,
                           pushesBefore |-> pushes,
                           pushesAfter |-> r.world.pushes])
            /\ UNCHANGED <<yamlCalls, mutations, dnsVars, mainVars, ioVars>>

\* The tracked file is rewritten between two calls (an editor, a mutation
\* tool): the pending change git_commit_push is there to publish.
WorkTreeChange ==
    /\ \E t \in {FileKey, FileQuoted} :
        /\ t # file
        /\ file' = t
    /\ UNCHANGED <<stateFile, head, commits, pushes, logVars, dnsVars, mainVars, ioVars>>

InitYaml ==
    /\ file \in Files
    /\ head = file
    /\ stateFile = NoFile
    /\ commits = 0
    /\ pushes = 0
    /\ LogIdle
    /\ IoIdle
    /\ DnsIdle
    /\ MainIdle

NextYaml == YamlUpdate

SpecYaml == InitYaml /\ [][NextYaml]_vars

ReplaceIpLiteral ==
    /\ mutations < MaxMutations
    /\ mutations' = mutations + 1
    /\ \E old_ip \in OldIps, new_ip \in NewValues :
        LET r == replace_ip_literal(World, old_ip, new_ip)
        IN  /\ SetWorld(r.world)
            /\ litCalls' = <<[old_ip |-> old_ip, new_ip |-> new_ip,
                              before |-> file, changed |-> r.result.changed,
                              wrote |-> r.wrote, after |-> r.world.file]>>
            /\ UNCHANGED <<yamlCalls, gitCalls, dnsVars, mainVars, storeLog,
                           notifyLog, dnsOnceLog, TEAMS_WEBHOOK_URL>>

\* what set_last_ip is given: an address, an address with blanks and a line
\* end around it, nothing
StoreIps == {IP_A, IP_B, <<" ">> \o IP_B \o <<"\r", "\n">>, <<>>}

\* op: the last call made; lastSet: the argument of the last set_last_ip
\* call; got: the ip of the last get_last_ip call
SetLastIp ==
    \E ip \in StoreIps :
        LET r == set_last_ip(World, ip)
        IN  /\ SetWorld(r.world)
            /\ storeLog' = [storeLog EXCEPT !.op = "set", !.hasSet = TRUE,
                                            !.lastSet = ip,
                                            !.raised = @ \/ r.raised]
            /\ UNCHANGED <<logVars, dnsVars, mainVars, litCalls, notifyLog,
                           dnsOnceLog, TEAMS_WEBHOOK_URL>>

GetLastIp ==
    LET r == get_last_ip(World)
    IN  /\ SetWorld(r.world)
        /\ storeLog' = [storeLog EXCEPT !.op = "get", !.got = r.result.ip,
                            !.changedByGet = @ \/ r.world.stateFile # stateFile,
                            !.raised = @ \/ r.raised]
        /\ UNCHANGED <<logVars, dnsVars, mainVars, litCalls, notifyLog,
                       dnsOnceLog, TEAMS_WEBHOOK_URL>>

NotifyTeams ==
    \E delivery \in Deliveries :
        LET r == notify_teams(delivery)
        IN  /\ notifyLog' = <<[url |-> TEAMS_WEBHOOK_URL, delivery |-> delivery,
                               result |-> r.result, raised |-> r.raised,
                               requests |-> r.requests]>>
            /\ UNCHANGED <<wsVars, logVars, dnsVars, mainVars, litCalls, storeLog,
                           dnsOnceLog, TEAMS_WEBHOOK_URL>>

DnsOnce ==
    \E ns \in NslookupOutcomes, so \in SocketOutcomes :
        LET r == dns_once(ns, so)
        IN  /\ dnsOnceLog' = <<[ns |-> ns, so |-> so, result |-> r.result,
                                raised |-> r.raised, tried |-> r.tried]>>
            /\ UNCHANGED <<wsVars, logVars, dnsVars, mainVars, litCalls, storeLog,
                           notifyLog, TEAMS_WEBHOOK_URL>>

\* The state store, the notifier and the resolver called directly, in any
\* order; the state file may be there from an earlier run
InitTools ==
    /\ stateFile \in {NoFile, IP_A \o <<"\n">>}
    /\ TEAMS_WEBHOOK_URL \in WebhookUrls
    /\ file = <<>>
    /\ head = <<>>
    /\ commits = 0
    /\ pushes = 0
    /\ litCalls = <<>>
    /\ storeLog = NoStoreLog
    /\ notifyLog = <<>>
    /\ dnsOnceLog = <<>>
    /\ LogIdle
    /\ DnsIdle
    /\ MainIdle

NextTools == SetLastIp \/ GetLastIp \/ NotifyTeams \/ DnsOnce

SpecTools == InitTools /\ [][NextTools]_vars

\* yaml_update and replace_ip_literal on the same file, in any order
InitMutate ==
    /\ file \in MutateFiles
    /\ head = file
    /\ stateFile = NoFile
    /\ commits = 0
    /\ pushes = 0
    /\ LogIdle
    /\ IoIdle
    /\ DnsIdle
    /\ MainIdle

NextMutate == YamlUpdate \/ ReplaceIpLiteral

SpecMutate == InitMutate /\ [][NextMutate]_vars

InitGit ==
    /\ file = FileKey
    /\ head \in {file, <<>>}
    /\ stateFile = NoFile
    /\ commits = 0
    /\ pushes = 0
    /\ LogIdle
    /\ IoIdle
    /\ DnsIdle
    /\ MainIdle

NextGit == GitCommitPush \/ WorkTreeChange

SpecGit == InitGit /\ [][NextGit]_vars

\* ------------------------------------------------------------------------
\* stabilize_dns (llm_agent.py 63-82), one loop iteration per step
\* ------------------------------------------------------------------------
AttemptFactor == 5

\* What one dns_once call may return: no address, one, or several
DnsAnswers == {<<>>, <<IP_A>>, <<IP_B>>, <<IP_A, IP_B>>}

\* (a loop that runs once more than the budget)
AttemptBudgetPlusOne(q) == q * AttemptFactor + 1
\* range(queries * 5)
AttemptBudget(q) == q * AttemptFactor

\* (a strict comparison: one match too many is asked for)
ConvergedOneLate(c, q) == c > q
\* if count >= queries: return
Converged(c, q) == c >= q

\* primary = ipv4[0] if ipv4 else ""
Primary(ipv4) == IF ipv4 # <<>> THEN ipv4[1] ELSE <<>>

\* What the resolver has answered so far, kept to state the claims:
\* first/last primary, whether every answer had the first answer's non-empty
\* primary, whether every answer had a primary other than the one before it;
\* lastAddr: the primary of the last answer that had one; run: how many of
\* the latest answers that had a primary had that same primary, in a row.
ObsAfter(o, primary) ==
    IF o.calls = 0
    THEN [calls |-> 1, first |-> primary, last |-> primary,
          allSame |-> primary # <<>>, allDiffer |-> primary # <<>>,
          anyAddr |-> primary # <<>>, lastAddr |-> primary,
          run |-> IF primary # <<>> THEN 1 ELSE 0]
    ELSE [calls |-> o.calls + 1, first |-> o.first, last |-> primary,
          allSame |-> o.allSame /\ primary = o.first,
          allDiffer |-> o.allDiffer /\ primary # <<>> /\ primary # o.last,
          anyAddr |-> o.anyAddr \/ primary # <<>>,
          lastAddr |-> IF primary # <<>> THEN primary ELSE o.lastAddr,
          run |-> IF primary = <<>> THEN o.run
                  ELSE IF primary = o.lastAddr THEN o.run + 1 ELSE 1]

InitDns ==
    /\ queries \in 0..MaxQueries
    /\ dnsPc = "polling"
    /\ attempt = 0
    /\ stable = <<>>
    /\ count = 0
    /\ all_last = <<>>
    /\ dnsResult = NoResult
    /\ obs = NoObs
    /\ file = <<>>
    /\ head = <<>>
    /\ stateFile = NoFile
    /\ commits = 0
    /\ pushes = 0
    /\ LogIdle
    /\ IoIdle
    /\ MainIdle

\* (a loop body in which an attempt without an address starts the count anew)
DnsAttemptEmptyResets ==
    /\ dnsPc = "polling"
    /\ attempt < AttemptBudget(queries)
    /\ \E ipv4 \in DnsAnswers :
        LET primary == Primary(ipv4)
            count1  == IF primary = stable THEN count + 1 ELSE 1
        IN  /\ attempt' = attempt + 1
            /\ obs' = ObsAfter(obs, primary)
            /\ stable' = primary
            /\ count' = IF primary = <<>> THEN 0 ELSE count1
            /\ all_last' = IF primary = <<>> THEN all_last ELSE ipv4
            /\ IF primary # <<>> /\ Converged(count1, queries)
               THEN /\ dnsPc' = "returned"
                    /\ dnsResult' = [primary |-> primary, all_ipv4 |-> ipv4]
               ELSE UNCHANGED <<dnsPc, dnsResult>>
    /\ UNCHANGED <<queries, wsVars, logVars, mainVars, ioVars>>

\* One pass through the loop body: a dns_once call and what follows it
DnsAttempt ==
    /\ dnsPc = "polling"
    /\ attempt < AttemptBudget(queries)
    /\ \E ipv4 \in DnsAnswers :
        LET primary == Primary(ipv4)
            stable1 == IF primary = stable THEN stable ELSE primary
            count1  == IF primary = stable THEN count + 1 ELSE 1
        IN  /\ attempt' = attempt + 1
            /\ obs' = ObsAfter(obs, primary)
            /\ IF primary = <<>>
               THEN \* time.sleep(delay_sec); continue
                    UNCHANGED <<stable, count, all_last, dnsPc, dnsResult>>
               ELSE /\ stable' = stable1
                    /\ count' = count1
                    /\ all_last' = ipv4
                    /\ IF Converged(count1, queries)
                       THEN /\ dnsPc' = "returned"
                            /\ dnsResult' = [primary |-> stable1, all_ipv4 |-> ipv4]
                       ELSE UNCHANGED <<dnsPc, dnsResult>>
    /\ UNCHANGED <<queries, wsVars, logVars, mainVars, ioVars>>

\* The loop ran out of attempts: the return after it
DnsExhausted ==
    /\ dnsPc = "polling"
    /\ attempt >= AttemptBudget(queries)
    /\ dnsPc' = "returned"
    /\ dnsResult' = [primary |-> stable, all_ipv4 |-> all_last]
    /\ UNCHANGED <<queries, attempt, stable, count, all_last, obs,
                   wsVars, logVars, mainVars, ioVars>>

NextDns == DnsAttempt \/ DnsExhausted

\* The loop is sequential code: while it has a step to take it takes it.
SpecStabilize == InitDns /\ [][NextDns]_vars /\ WF_vars(NextDns)

\* ------------------------------------------------------------------------
\* Tool registry and dispatch (llm_agent.py 163-172, 306-314)
\* ------------------------------------------------------------------------
TOOLS_IMPL == {"stabilize_dns", "get_last_ip", "set_last_ip", "read_file",
               "yaml_update", "replace_ip_literal", "git_commit_push",
               "notify_teams"}

\* {} as json.loads returns it
EmptyDict == <<>>

\* json.loads on the argument strings the decision service sends in the model
JsonLoads(str) ==
    CASE str = "{}" -> [ok |-> TRUE, value |-> EmptyDict]
      [] str = "{\"ip\": \"2.2.2.2\"}" -> [ok |-> TRUE, value |-> [ip |-> IP_B]]
      [] str = "{\"branch\": \"main\", \"message\": \"m\"}" ->
            [ok |-> TRUE, value |-> [branch |-> "main", message |-> "m"]]
      [] str = "{\"hostname\": \"h\", \"queries\": 3, \"delay_sec\": 0}" ->
            [ok |-> TRUE, value |-> [hostname |-> "h", queries |-> 3, delay_sec |-> 0]]
      [] str = "{\"path\": \"values.yaml\", \"keyPath\": \"a.k\", \"newValue\": \"2.2.2.2\"}" ->
            [ok |-> TRUE, value |-> [path |-> "values.yaml",
                                     keyPath |-> <<"a", ".", "k">>, newValue |-> IP_B]]
      [] str = "{\"title\": \"t\", \"text\": \"1.1.1.1 -> 2.2.2.2\"}" ->
            [ok |-> TRUE, value |-> [title |-> "t", text |-> "1.1.1.1 -> 2.2.2.2"]]
      [] OTHER -> [ok |-> FALSE, value |-> EmptyDict]

RECURSIVE Join(_)
\* the characters of a text as one string
Join(t) == IF t = <<>> THEN "" ELSE Head(t) \o Join(Tail(t))

\* json.dumps of a tool result
JsonDumps(r) ==
    CASE DOMAIN r = {"error"} -> "{\"error\": \"" \o r.error \o "\"}"
      [] DOMAIN r = {"ok"} -> "{\"ok\": true}"
      [] DOMAIN r = {"ip"} -> "{\"ip\": \"" \o Join(r.ip) \o "\"}"
      [] DOMAIN r = {"pushed", "reason"} ->
            "{\"pushed\": false, \"reason\": \"" \o r.reason \o "\"}"
      [] DOMAIN r = {"pushed"} -> "{\"pushed\": true}"

\* str(e) of the NameError that evaluating line 310 raises
NameErrorText == "name 'TOOLS_IMPLname' is not defined"

\* (call_tool with line 310 reaching the registered operation: the operation
\* runs on the workspace, what it raises is returned as {"error": ...})
call_tool_dispatching(name, args, w, gitFail) ==
    IF name \notin TOOLS_IMPL
    THEN [result |-> [error |-> "Unknown tool " \o name], world |-> w]
    ELSE IF name = "set_last_ip" /\ DOMAIN args = {"ip"}
    THEN [result |-> set_last_ip(w, args.ip).result,
          world |-> set_last_ip(w, args.ip).world]
    ELSE IF name = "get_last_ip" /\ args = EmptyDict
    THEN [result |-> get_last_ip(w).result, world |-> w]
    ELSE IF name = "git_commit_push" /\ DOMAIN args = {"branch", "message"}
    THEN LET r == git_commit_push(w, gitFail)
         IN  [result |-> IF r.raised THEN [error |-> "Command failed"]
                         ELSE r.result,
              world |-> r.world]
    ELSE [result |-> [error |-> "Bad args"], world |-> w]

\* call_tool as written.  For a registered name line 310 evaluates the
\* undefined name TOOLS_IMPLname: NameError, caught at line 313 and returned
\* as {"error": str(e)}.  No registered operation is reached.
call_tool(name, args, w, gitFail) ==
    IF name \notin TOOLS_IMPL
    THEN [result |-> [error |-> "Unknown tool " \o name], world |-> w]
    ELSE [result |-> [error |-> NameErrorText], world |-> w]

\* ------------------------------------------------------------------------
\* main (llm_agent.py 316-356)
\* ------------------------------------------------------------------------
\* What the decision service may ask for in one tool call: name and
\* arguments string (empty, valid JSON, or cut off in the middle)
ToolCallMenu ==
    {[name |-> "set_last_ip", arguments |-> "{\"ip\": \"2.2.2.2\"}"],
     [name |-> "git_commit_push",
      arguments |-> "{\"branch\": \"main\", \"message\": \"m\"}"],
     [name |-> "no_such_tool", arguments |-> ""],
     [name |-> "set_last_ip", arguments |-> "{\"ip\": "]}

\* ids are unique over a run, as the service issues them
CallId(round, i) == round * (MaxToolCalls + 1) + i

\* the tool_calls lists a response may carry in round `round`
ToolCallLists(round) ==
    UNION {{[i \in 1..n |-> [id |-> CallId(round, i), name |-> f[i].name,
                             arguments |-> f[i].arguments]] :
                f \in [1..n -> ToolCallMenu]} : n \in 1..MaxToolCalls}

\* classes of failure of client.chat.completions.create
CreateFailures == {"transient", "fatal"}

InitMain ==
    /\ pc = "AWAITING_MODEL"
    /\ messages = <<[role |-> "system", content |-> "SYSTEM_PROMPT"],
                    [role |-> "user", content |-> "config"]>>
    /\ msg = [content |-> "", tool_calls |-> <<>>]
    /\ tcIdx = 0
    /\ printed = NotPrinted
    /\ rounds = 0
    /\ createCalls = 0
    /\ attempts = 0
    /\ lastFailure = "none"
    /\ raisedBy = "none"
    /\ pushedInRun = FALSE
    /\ toolLog = <<>>
    /\ baseLen = 2
    /\ request = NoResult
    /\ file = FileKey
    /\ head \in {file, <<>>}
    /\ stateFile = IP_A
    /\ commits = 0
    /\ pushes = 0
    /\ LogIdle
    /\ IoIdle
    /\ DnsIdle

\* the message appended for one executed tool call (lines 346-351)
\* (every message filed under the id of the response's first call)
ToolMessageFirstId(tc, fn, result) ==
    [role |-> "tool", tool_call_id |-> msg.tool_calls[1].id, name |-> fn,
     content |-> JsonDumps(result)]
ToolMessage(tc, fn, result) ==
    [role |-> "tool", tool_call_id |-> tc.id, name |-> fn,
     content |-> JsonDumps(result)]

\* the names of TOOLS_SCHEMA, in the order of the list (lines 201-303)
TOOLS_SCHEMA == <<"stabilize_dns", "get_last_ip", "set_last_ip", "read_file",
                  "yaml_update", "replace_ip_literal", "git_commit_push",
                  "notify_teams">>

\* (a create call that is sent the last message only)
CreateRequestLastOnly(msgs) ==
    [messages |-> <<msgs[Len(msgs)]>>, tools |-> TOOLS_SCHEMA,
     tool_choice |-> "auto", temperature |-> 0]
\* the keyword arguments of client.chat.completions.create (lines 331-337)
CreateRequest(msgs) ==
    [messages |-> msgs, tools |-> TOOLS_SCHEMA, tool_choice |-> "auto",
     temperature |-> 0]

\* client.chat.completions.create raises: nothing in main catches it
CreateRaises ==
    /\ pc = "AWAITING_MODEL"
    /\ \E class \in CreateFailures :
        /\ lastFailure' = class
    /\ createCalls' = createCalls + 1
    /\ request' = CreateRequest(messages)
    /\ attempts' = 1
    /\ pc' = "RAISED"
    /\ raisedBy' = "create"
    /\ UNCHANGED <<messages, msg, tcIdx, printed, rounds, pushedInRun, toolLog,
                   baseLen, wsVars, logVars, dnsVars, ioVars>>

\* (a loop that stops taking tool calls after its first round)
CreateReturnsToolCallsOneRound ==
    /\ pc = "AWAITING_MODEL"
    /\ rounds < 1
    /\ \E tcs \in ToolCallLists(rounds + 1) :
        /\ msg' = [content |-> "", tool_calls |-> tcs]
    /\ createCalls' = createCalls + 1
    /\ request' = CreateRequest(messages)
    /\ attempts' = 1
    /\ lastFailure' = "none"
    /\ rounds' = rounds + 1
    /\ tcIdx' = 1
    /\ toolLog' = <<>>
    /\ baseLen' = Len(messages)
    /\ pc' = "EXECUTING_TOOLS"
    /\ UNCHANGED <<messages, printed, raisedBy, pushedInRun, wsVars, logVars,
                   dnsVars, ioVars>>

\* the response carries tool calls: lines 341-342
CreateReturnsToolCalls ==
    /\ pc = "AWAITING_MODEL"
    /\ rounds < MaxRounds
    /\ \E tcs \in ToolCallLists(rounds + 1) :
        /\ msg' = [content |-> "", tool_calls |-> tcs]
    /\ createCalls' = createCalls + 1
    /\ request' = CreateRequest(messages)
    /\ attempts' = 1
    /\ lastFailure' = "none"
    /\ rounds' = rounds + 1
    /\ tcIdx' = 1
    /\ toolLog' = <<>>
    /\ baseLen' = Len(messages)
    /\ pc' = "EXECUTING_TOOLS"
    /\ UNCHANGED <<messages, printed, raisedBy, pushedInRun, wsVars, logVars,
                   dnsVars, ioVars>>

\* the response carries no tool calls: lines 355-356
CreateReturnsFinal ==
    /\ pc = "AWAITING_MODEL"
    /\ msg' = [content |-> "summary", tool_calls |-> <<>>]
    /\ createCalls' = createCalls + 1
    /\ request' = CreateRequest(messages)
    /\ attempts' = 1
    /\ lastFailure' = "none"
    /\ printed' = "summary"
    /\ pc' = "DONE"
    /\ UNCHANGED <<messages, tcIdx, rounds, raisedBy, pushedInRun, toolLog,
                   baseLen, wsVars, logVars, dnsVars, ioVars>>

\* one pass through the for loop of lines 342-351, and the `continue` of
\* line 352 after the last one
ExecuteToolCall ==
    /\ pc = "EXECUTING_TOOLS"
    /\ LET tc == msg.tool_calls[tcIdx]
           fn == tc.name
           parsed == JsonLoads(IF tc.arguments = "" THEN "{}" ELSE tc.arguments)
       IN  IF ~parsed.ok
           THEN \* json.loads raises JSONDecodeError out of main
                /\ pc' = "RAISED"
                /\ raisedBy' = "json.loads"
                /\ UNCHANGED <<messages, tcIdx, toolLog, pushedInRun, wsVars>>
           ELSE \E gitFail \in GitFailures :
                LET r == call_tool(fn, parsed.value, World, gitFail)
                IN  /\ SetWorld(r.world)
                    /\ messages' = Append(messages, ToolMessage(tc, fn, r.result))
                    /\ toolLog' = Append(toolLog,
                            [id |-> tc.id, name |-> fn, result |-> r.result])
                    /\ pushedInRun' =
                            (pushedInRun \/ (fn = "git_commit_push" /\ r.result = Pushed))
                    /\ tcIdx' = tcIdx + 1
                    /\ pc' = IF tcIdx = Len(msg.tool_calls)
                             THEN "AWAITING_MODEL" ELSE "EXECUTING_TOOLS"
                    /\ UNCHANGED raisedBy
    /\ UNCHANGED <<msg, printed, rounds, createCalls, attempts, lastFailure,
                   baseLen, request, logVars, dnsVars, ioVars>>

Next == CreateRaises \/ CreateReturnsToolCalls \/ CreateReturnsFinal \/ ExecuteToolCall

Spec == InitMain /\ [][Next]_vars

\* ------------------------------------------------------------------------
\* main with a decision service that follows the workflow of SYSTEM_PROMPT
\* (llm_agent.py 181-199): one run, the old address 1.1.1.1 in the state
\* file and under the key, the new address 2.2.2.2 to be rolled out
\* ------------------------------------------------------------------------
ScenarioSteps ==
    <<[name |-> "stabilize_dns",
       arguments |-> "{\"hostname\": \"h\", \"queries\": 3, \"delay_sec\": 0}"],
      [name |-> "get_last_ip", arguments |-> ""],
      [name |-> "yaml_update",
       arguments |-> "{\"path\": \"values.yaml\", \"keyPath\": \"a.k\", \"newValue\": \"2.2.2.2\"}"],
      [name |-> "git_commit_push",
       arguments |-> "{\"branch\": \"main\", \"message\": \"m\"}"],
      [name |-> "set_last_ip", arguments |-> "{\"ip\": \"2.2.2.2\"}"],
      [name |-> "notify_teams",
       arguments |-> "{\"title\": \"t\", \"text\": \"1.1.1.1 -> 2.2.2.2\"}"]>>

\* workflow steps already answered with a tool message
StepsDone == Len(messages) - 2

InitScenario ==
    /\ pc = "AWAITING_MODEL"
    /\ messages = <<[role |-> "system", content |-> "SYSTEM_PROMPT"],
                    [role |-> "user", content |-> "config"]>>
    /\ msg = [content |-> "", tool_calls |-> <<>>]
    /\ tcIdx = 0
    /\ printed = NotPrinted
    /\ rounds = 0
    /\ createCalls = 0
    /\ attempts = 0
    /\ lastFailure = "none"
    /\ raisedBy = "none"
    /\ pushedInRun = FALSE
    /\ toolLog = <<>>
    /\ baseLen = 2
    /\ request = NoResult
    /\ file = FileKey
    /\ head = file
    /\ stateFile = IP_A
    /\ commits = 0
    /\ pushes = 0
    /\ LogIdle
    /\ litCalls = <<>>
    /\ storeLog = NoStoreLog
    /\ notifyLog = <<>>
    /\ dnsOnceLog = <<>>
    /\ TEAMS_WEBHOOK_URL = "https://hooks.example/x"
    /\ DnsIdle

\* the service asks for the next steps of the workflow, one or several of
\* them in a response, each call under an id of its own
ScenarioResponse ==
    /\ pc = "AWAITING_MODEL"
    /\ StepsDone < Len(ScenarioSteps)
    /\ \E n \in 1..(Len(ScenarioSteps) - StepsDone) :
        msg' = [content |-> "",
                tool_calls |-> [i \in 1..n |->
                    [id |-> StepsDone + i,
                     name |-> ScenarioSteps[StepsDone + i].name,
                     arguments |-> ScenarioSteps[StepsDone + i].arguments]]]
    /\ createCalls' = createCalls + 1
    /\ request' = CreateRequest(messages)
    /\ attempts' = 1
    /\ lastFailure' = "none"
    /\ rounds' = rounds + 1
    /\ tcIdx' = 1
    /\ toolLog' = <<>>
    /\ baseLen' = Len(messages)
    /\ pc' = "EXECUTING_TOOLS"
    /\ UNCHANGED <<messages, printed, raisedBy, pushedInRun, wsVars, logVars,
                   dnsVars, ioVars>>

\* after the last step the service answers with the summary
ScenarioFinal ==
    /\ StepsDone = Len(ScenarioSteps)
    /\ CreateReturnsFinal

NextScenario == ScenarioResponse \/ ExecuteToolCall \/ ScenarioFinal

SpecScenario == InitScenario /\ [][NextScenario]_vars

\* ========================================================================
\* Claims
\* ========================================================================
Count(seq, x) == Cardinality({i \in 1..Len(seq) : seq[i] = x})

\* C1: git_commit_push is change-gated.  A call on a clean tree (status
\* empty after staging) runs neither commit nor push and, when it returns,
\* returns {pushed: false, reason: "no changes"}; a call on a tree with a
\* pending change whose git commands all exit zero commits once, pushes once
\* and returns {pushed: true}; the call right after such a call, with the
\* tree not changed in between, creates no commit and returns "no changes".
C1_ChangeGated ==
    \A i \in 1..Len(gitCalls) :
        LET c == gitCalls[i]
            clean == c.treeBefore = c.headBefore
        IN  /\ clean =>
                /\ Count(c.cmds, "commit") = 0
                /\ Count(c.cmds, "push") = 0
                /\ c.commitsAfter = c.commitsBefore
                /\ c.pushesAfter = c.pushesBefore
                /\ ~c.raised => c.result = NoChanges
            /\ (~clean /\ ~c.raised) =>
                /\ c.result = Pushed
                /\ Count(c.cmds, "commit") = 1
                /\ Count(c.cmds, "push") = 1
                /\ c.commitsAfter = c.commitsBefore + 1
                /\ c.pushesAfter = c.commitsAfter
            /\ (i > 1 /\ ~gitCalls[i - 1].raised /\ gitCalls[i - 1].result = Pushed
                  /\ c.treeBefore = gitCalls[i - 1].treeBefore) =>
                /\ c.commitsAfter = gitCalls[i - 1].commitsAfter
                /\ ~c.raised => c.result = NoChanges

\* C1 witness: a call that pushed, followed at once by a call that found
\* nothing to publish
C1_Witness ==
    /\ Len(gitCalls) = 2
    /\ ~gitCalls[1].raised /\ gitCalls[1].result = Pushed
    /\ gitCalls[1].commitsAfter = gitCalls[1].commitsBefore + 1
    /\ gitCalls[2].treeBefore = gitCalls[1].treeBefore
    /\ ~gitCalls[2].raised /\ gitCalls[2].result = NoChanges

\* C2: yaml_update applied twice in a row with the same key path and value
\* to a file that has a line for the key reports changed=true the first
\* time and changed=false the second time, the content being the same after
\* both calls.
C2_SecondCallUnchanged ==
    Len(yamlCalls) = 2 =>
        LET a == yamlCalls[1]
            b == yamlCalls[2]
        IN  (/\ a.keyPath = b.keyPath
             /\ a.newValue = b.newValue
             /\ b.before = a.after
             /\ YamlMatches(a.before, LastSegment(a.keyPath)) # {}) =>
                /\ a.changed
                /\ ~b.changed
                /\ b.content = a.content

\* C3: when every dns_once call answers the same non-empty primary and
\* queries >= 1, stabilize_dns returns after exactly `queries` calls, with
\* that primary; it never polls beyond `queries` calls.
C3_ConvergesAfterN ==
    (queries >= 1 /\ obs.allSame) =>
        /\ dnsPc = "polling" => attempt < queries
        /\ dnsPc = "returned" =>
            /\ attempt = queries
            /\ dnsResult.primary = obs.first

\* C3 witness: two identical answers, queries = 2, returned
C3_Witness ==
    /\ dnsPc = "returned"
    /\ queries = 2
    /\ obs.allSame
    /\ obs.calls = 2
    /\ dnsResult.primary = IP_A

\* C4: stabilize_dns makes at most 5 * queries dns_once calls whatever the
\* resolver answers, and then returns; when every answer has a primary other
\* than the one before it (queries >= 2), it makes exactly 5 * queries calls
\* and returns the primary of the last one.
C4_BoundedAttempts ==
    /\ [](/\ attempt <= AttemptFactor * queries
          /\ (dnsPc = "returned" /\ queries >= 2 /\ obs.allDiffer) =>
                /\ attempt = AttemptFactor * queries
                /\ dnsResult.primary = obs.last)
    /\ <>(dnsPc = "returned")

\* C4 witness: the budget used up by answers that keep changing
C4_Witness ==
    /\ dnsPc = "returned"
    /\ queries = 2
    /\ obs.allDiffer
    /\ obs.calls = AttemptFactor * 2
    /\ dnsResult.primary = obs.last

\* a tool message of this run names the tool
ToolCalled(name) ==
    \E i \in 1..Len(messages) :
        messages[i].role = "tool" /\ messages[i].name = name

C6_NeverSilentNeverCrashes ==
    /\ pc \in {"DONE", "RAISED"} =>
            (printed # NotPrinted \/ ToolCalled("notify_teams"))
    /\ lastFailure # "none" => pc # "RAISED"

\* C7: every decision-service call of the loop is retried by class: after a
\* transient failure of the first attempt the call is attempted again, and a
\* fatal failure ends the call after one attempt without raising out of main.
C7_RetryClassified ==
    /\ (lastFailure = "transient" /\ attempts = 1) => pc = "AWAITING_MODEL"
    /\ lastFailure = "fatal" => (attempts = 1 /\ pc # "RAISED")

\* C8: the loop moves AWAITING_MODEL -> EXECUTING_TOOLS -> AWAITING_MODEL ...
\* -> DONE: DONE is entered exactly when a response without tool calls
\* arrives, whose content is then printed; from EXECUTING_TOOLS the loop
\* executes every tool call of the response and then goes back to
\* AWAITING_MODEL, never anywhere else.
C8_LoopShape ==
    [][/\ (pc' = "DONE" /\ pc # "DONE") =>
            /\ pc = "AWAITING_MODEL"
            /\ msg'.tool_calls = <<>>
            /\ printed' = msg'.content
       /\ (pc = "AWAITING_MODEL" /\ createCalls' # createCalls
             /\ lastFailure' = "none") =>
            (msg'.tool_calls = <<>>) = (pc' = "DONE")
       /\ pc = "DONE" => (createCalls' = createCalls /\ messages' = messages)
       /\ pc = "EXECUTING_TOOLS" =>
            /\ pc' \in {"EXECUTING_TOOLS", "AWAITING_MODEL"}
            /\ pc' = "AWAITING_MODEL" => Len(toolLog') = Len(msg.tool_calls)
      ]_vars

\* C9: for a response with k tool calls the loop appends one tool message
\* per call, in the order of the calls, the i-th with the id of the i-th
\* call and json.dumps of what call_tool returned for it; all k are there
\* when the decision service is called again.
C9_ResultsCorrelated ==
    (rounds >= 1 /\ pc \in {"EXECUTING_TOOLS", "AWAITING_MODEL"}) =>
        /\ Len(messages) = baseLen + Len(toolLog)
        /\ Len(toolLog) <= Len(msg.tool_calls)
        /\ pc = "AWAITING_MODEL" => Len(toolLog) = Len(msg.tool_calls)
        /\ \A i \in 1..Len(toolLog) :
            LET tc == msg.tool_calls[i]
                m  == messages[baseLen + i]
            IN  /\ m.role = "tool"
                /\ m.tool_call_id = tc.id
                /\ m.name = tc.name
                /\ toolLog[i].id = tc.id
                /\ toolLog[i].name = tc.name
                /\ m.content = JsonDumps(toolLog[i].result)

\* C9 witness: a response with two tool calls has been worked off and the
\* two tool messages carry the two ids
C9_Witness ==
    /\ pc = "AWAITING_MODEL"
    /\ Len(msg.tool_calls) = 2
    /\ Len(messages) = baseLen + 2
    /\ messages[baseLen + 1].tool_call_id = msg.tool_calls[1].id
    /\ messages[baseLen + 2].tool_call_id = msg.tool_calls[2].id
    /\ msg.tool_calls[1].id # msg.tool_calls[2].id
    /\ messages[baseLen + 1].content # messages[baseLen + 2].content

\* C10: a tool call naming a tool that is not registered gets the result
\* {error: "Unknown tool '<name>'"}, the name in single quotes, appended
\* under the call's id, and the loop goes on.
C10_UnknownToolQuoted ==
    /\ \A i \in 1..Len(toolLog) :
        toolLog[i].name \notin TOOLS_IMPL =>
            /\ toolLog[i].result =
                    [error |-> "Unknown tool '" \o toolLog[i].name \o "'"]
            /\ messages[baseLen + i].tool_call_id = toolLog[i].id
    /\ (pc = "RAISED" /\ raisedBy = "json.loads") =>
            msg.tool_calls[tcIdx].name \in TOOLS_IMPL

\* C11: call_tool(name, args) with a registered name and arguments that
\* match the tool's schema runs the operation registered under that name and
\* returns its result, so that the effect takes place: a processed
\* set_last_ip call returns {ok: true} and, being the last call processed,
\* leaves its argument in the state file; a processed git_commit_push call
\* returns a PublishResult or the error of the git command that failed.
C11_DispatchReachesTool ==
    \A i \in 1..Len(toolLog) :
        /\ toolLog[i].name = "set_last_ip" =>
                /\ toolLog[i].result = [ok |-> TRUE]
                /\ i = Len(toolLog) => stateFile = IP_B
        /\ toolLog[i].name = "git_commit_push" =>
                toolLog[i].result # [error |-> NameErrorText]

\* C12: git_commit_push never reports a failed operation as success.  It
\* returns {pushed: true} only when the status after staging was not empty
\* and add, status, commit and push all ran and exited zero; when a command
\* it runs exits non-zero the call raises, that command is the last one the
\* call ran, and nothing reaches origin.
C12_NoFailureAsSuccess ==
    \A i \in 1..Len(gitCalls) :
        LET c == gitCalls[i]
            failed == Count(c.cmds, c.fail) > 0
        IN  /\ (~c.raised /\ c.result = Pushed) =>
                /\ c.treeBefore # c.headBefore
                /\ c.cmds = <<"add", "status", "commit", "push">>
                /\ ~failed
            /\ failed =>
                /\ c.raised
                /\ c.result \notin {Pushed, NoChanges}
                /\ c.cmds[Len(c.cmds)] = c.fail
                /\ Count(c.cmds, c.fail) = 1
                /\ c.pushesAfter = c.pushesBefore
            /\ c.raised => failed

\* C12 witness: the push of a call exits non-zero after its commit went
\* through; the call has raised
C12_Witness ==
    /\ gitCalls # <<>>
    /\ gitCalls[Len(gitCalls)].fail = "push"
    /\ gitCalls[Len(gitCalls)].raised
    /\ gitCalls[Len(gitCalls)].cmds = <<"add", "status", "commit", "push">>
    /\ gitCalls[Len(gitCalls)].commitsAfter = gitCalls[Len(gitCalls)].commitsBefore + 1

\* C13: the changed flag of yaml_update and replace_ip_literal is sound both
\* ways.  changed=false: the file after the call is byte for byte the file
\* before it, and the content yaml_update returns is the text it read.
\* changed=true: the key line (yaml_update) or the old_ip / an IPv4 literal
\* (replace_ip_literal) was in the input and the file now holds the
\* replacement.
C13_ChangedFlagSound ==
    /\ \A i \in 1..Len(yamlCalls) :
        LET c == yamlCalls[i]
            text == ReadText(c.before)
        IN  /\ ~c.changed =>
                /\ c.after = c.before
                /\ c.content = text
            /\ c.changed =>
                /\ YamlMatches(text, LastSegment(c.keyPath)) # {}
                /\ c.after = YamlSubn(text, LastSegment(c.keyPath), c.newValue)[1]
    /\ \A i \in 1..Len(litCalls) :
        LET c == litCalls[i]
            text == ReadText(c.before)
        IN  /\ ~c.changed => c.after = c.before
            /\ c.changed =>
                /\ (c.old_ip # <<>> /\ Contains(text, c.old_ip))
                        \/ FirstIpv4(text) # <<>>
                /\ c.after # c.before
                /\ Contains(c.after, c.new_ip)

\* the last yaml_update call found no line for the key and the last
\* replace_ip_literal call was then made on the same file with the same new
\* value and an old_ip the file contains
FallbackCase ==
    /\ yamlCalls # <<>>
    /\ litCalls # <<>>
    /\ ~yamlCalls[Len(yamlCalls)].changed
    /\ litCalls[1].before = yamlCalls[Len(yamlCalls)].after
    /\ litCalls[1].new_ip = yamlCalls[Len(yamlCalls)].newValue
    /\ litCalls[1].old_ip # <<>>
    /\ Contains(ReadText(litCalls[1].before), litCalls[1].old_ip)

\* C14 as stated: whenever yaml_update(path, keyPath, new) reports
\* changed=false on a file that contains old_ip, replace_ip_literal(path,
\* old_ip, new) on that file reports changed=true.
C14_FallbackAlwaysChanges == FallbackCase => litCalls[1].changed

\* C14 amended: the same, for a new value other than old_ip; with new equal
\* to old_ip the text is rewritten as it was and changed=false is reported.
C14_FallbackChanges ==
    (FallbackCase /\ litCalls[1].new_ip # litCalls[1].old_ip) =>
        /\ litCalls[1].changed
        /\ litCalls[1].after # litCalls[1].before
        /\ Contains(litCalls[1].after, litCalls[1].new_ip)

\* C14 witness: yaml_update found no line for k, replace_ip_literal then put
\* 2.2.2.2 where 1.1.1.1 stood
C14_Witness ==
    /\ FallbackCase
    /\ mutations = 2
    /\ litCalls[1].old_ip = IP_A
    /\ litCalls[1].new_ip = IP_B
    /\ litCalls[1].changed
    /\ Contains(file, IP_B)

\* C15: yaml_update and replace_ip_literal write the file only when the
\* content they computed differs from the content they read.
C15_PersistOnlyOnChange ==
    /\ \A i \in 1..Len(yamlCalls) :
        yamlCalls[i].wrote => yamlCalls[i].content # ReadText(yamlCalls[i].before)
    /\ \A i \in 1..Len(litCalls) :
        litCalls[i].wrote => litCalls[i].after # ReadText(litCalls[i].before)

\* C16: with old_ip empty or not in the file, replace_ip_literal puts new_ip
\* in the place of the first IPv4 literal of the text and leaves the rest of
\* the text as it was, later IPv4 literals included; with no IPv4 literal in
\* the text it returns changed=false and the file is as before.
C16_FirstLiteralOnly ==
    \A i \in 1..Len(litCalls) :
        LET c == litCalls[i]
            text == ReadText(c.before)
            p == Min(Ipv4Matches(text))
        IN  (c.old_ip = <<>> \/ ~Contains(text, c.old_ip)) =>
                IF Ipv4Matches(text) # {}
                THEN c.after = SubSeq(text, 1, p - 1) \o c.new_ip
                                 \o SubSeq(text, Ipv4MatchAt(text, p).end, Len(text))
                ELSE ~c.changed /\ c.after = c.before

\* C17: the primary stabilize_dns returns is empty only if no attempt of
\* the call returned an address.  Otherwise it is the primary of the last
\* attempt that returned an address: on a return before the budget is used
\* up that address has just been answered `queries` times in a row (answers
\* without an address not counted), and the loop never polls on once an
\* address has reached that count; without convergence the call returns
\* only when all 5 * queries attempts are made.
C17_OutcomeInvariant ==
    /\ (dnsPc = "polling" /\ queries >= 1) => obs.run < queries
    /\ dnsPc = "returned" =>
        /\ dnsResult.primary = <<>> => ~obs.anyAddr
        /\ obs.anyAddr => dnsResult.primary = obs.lastAddr
        /\ attempt < AttemptFactor * queries =>
            /\ obs.last # <<>>
            /\ obs.run = queries
            /\ dnsResult.primary = obs.last
        /\ obs.run < queries => attempt = AttemptFactor * queries

\* C17 witness: the budget ran out without convergence, the last attempt
\* returned no address and the call returns the address seen before it
C17_Witness ==
    /\ dnsPc = "returned"
    /\ queries = 2
    /\ attempt = AttemptFactor * 2
    /\ obs.run < 2
    /\ obs.last = <<>>
    /\ dnsResult.primary = IP_B

\* C18: get_last_ip returns {ip: ""} when there is no state file and never
\* fails; after set_last_ip calls the next get_last_ip returns the
\* argument of the latest of them, stripped of the whitespace around it;
\* get_last_ip never changes what is stored.
C18_ReadYourWrites ==
    /\ ~storeLog.raised
    /\ ~storeLog.changedByGet
    /\ storeLog.op = "get" =>
        /\ stateFile = NoFile => storeLog.got = <<>>
        /\ storeLog.hasSet => storeLog.got = Strip(storeLog.lastSet)

\* C18 witness: the address was stored with a blank before it and a line
\* end after it, and read back bare
C18_Witness ==
    /\ storeLog.op = "get"
    /\ storeLog.hasSet
    /\ storeLog.lastSet = <<" ">> \o IP_B \o <<"\r", "\n">>
    /\ storeLog.got = IP_B
    /\ stateFile = storeLog.lastSet

\* C19: notify_teams never raises.  Without a webhook URL it returns
\* {sent: false, reason} and sends no request; with one, a delivery that
\* fails (bad URL, connection error, timeout, HTTP error) comes back as
\* {sent: false, error}, and sent=true is returned only for a POST that
\* completed.
C19_NotifyNeverFatal ==
    \A i \in 1..Len(notifyLog) :
        LET c == notifyLog[i]
        IN  /\ ~c.raised
            /\ c.url = "" =>
                /\ c.result = [sent |-> FALSE, reason |-> "no webhook"]
                /\ c.requests = 0
            /\ (c.url # "" /\ c.delivery = "completed" /\ UrlType(c.url) # "none")
                    => c.result.sent
            /\ (c.url # "" /\ (c.delivery # "completed" \/ UrlType(c.url) = "none"))
                    => (~c.result.sent /\ "error" \in DOMAIN c.result)

\* the nslookup call came back with exit code 0 and an IPv4 literal in its
\* output
NslookupYielded(ns) ==
    /\ ns.kind = "completed"
    /\ ns.returncode = 0
    /\ Ipv4Matches(ns.stdout) # {}

AnswerAddrs(ns) ==
    IF ns.kind = "completed" /\ StartsWithAt(ns.stdout, 1, ResolverLines)
    THEN Ipv4FindAll(SubSeq(ns.stdout, Len(ResolverLines) + 1, Len(ns.stdout)))
    ELSE <<>>

\* C21: every result of dns_once is a list of distinct IPv4 addresses, on
\* the nslookup path and on the socket path alike, and its first element is
\* the first address the lookup that answered reports for the hostname.
C21_DistinctFirstSeen ==
    \A i \in 1..Len(dnsOnceLog) :
        LET c == dnsOnceLog[i]
        IN  /\ \A j, k \in 1..Len(c.result) : c.result[j] = c.result[k] => j = k
            /\ c.result # <<>> =>
                    c.result[1] = IF c.tried = <<"nslookup">>
                                  THEN Primary(AnswerAddrs(c.ns))
                                  ELSE Primary(Inet4Addrs(c.so.infos))

\* the names of the tool messages of the conversation, in order
ToolNames == [i \in 1..(Len(messages) - 2) |-> messages[i + 2].name]

\* C22: when the decision service has asked for stabilize_dns, get_last_ip,
\* yaml_update, git_commit_push, set_last_ip and notify_teams in this order
\* and then given its final answer, the run is in DONE with the stabilize
\* result {primary: new, all_ipv4: [new]}, the key set to "new" in the
\* config file, exactly one commit created and pushed, the new address in
\* the state file and the notifier called.
C22_EndToEnd ==
    (pc = "DONE" /\ ToolNames = [i \in 1..Len(ScenarioSteps) |-> ScenarioSteps[i].name]) =>
        /\ dnsResult = [primary |-> IP_B, all_ipv4 |-> <<IP_B>>]
        /\ file = FileQuoted
        /\ commits = 1
        /\ pushes = 1
        /\ stateFile = IP_B
        /\ notifyLog # <<>>

\* ------------------------------------------------------------------------
\* C23: the conversation is append-only within one run of main: it starts
\* as exactly the system instruction followed by the user configuration
\* message, every step leaves the previous sequence as a prefix of the new
\* one, and every create call is sent the full current sequence together
\* with the tool schema and tool_choice "auto".
\* ------------------------------------------------------------------------
IsPrefix(s, t) == Len(s) <= Len(t) /\ SubSeq(t, 1, Len(s)) = s

C23_AppendOnly ==
    /\ messages = <<[role |-> "system", content |-> "SYSTEM_PROMPT"],
                    [role |-> "user", content |-> "config"]>>
    /\ [][/\ IsPrefix(messages, messages')
          /\ createCalls' # createCalls =>
                /\ request'.messages = messages
                /\ request'.tools = TOOLS_SCHEMA
                /\ request'.tool_choice = "auto"]_vars

\* a second create call has been sent the conversation with tool messages
C23_Witness ==
    /\ createCalls >= 2
    /\ Len(messages) >= 4
    /\ request.messages = messages

\* ------------------------------------------------------------------------
\* C24: in stabilize_dns an attempt that yields no address neither resets
\* the candidate nor counts toward convergence, it only uses up one attempt
\* slot: at every point of the loop (stable, count) is the pair that the
\* answers with an address alone give (the address of the last of them and
\* the length of the run of that address among them), every dns_once call
\* made is one attempt of the budget of 5 * queries, and a step whose
\* answer has no address changes nothing but the attempt number.  With
\* queries = 2 the answers A, none, A return A at the third attempt.
\* ------------------------------------------------------------------------
C24_EmptyAttemptsSkipped ==
    /\ [][(attempt' = attempt + 1 /\ obs'.last = <<>>) =>
            /\ stable' = stable
            /\ count' = count
            /\ all_last' = all_last
            /\ dnsPc' = dnsPc]_vars
    /\ [](/\ stable = obs.lastAddr
          /\ count = obs.run
          /\ attempt = obs.calls
          /\ attempt <= AttemptFactor * queries
          /\ (queries = 2 /\ obs.calls = 3 /\ obs.first = IP_A /\ obs.run = 2
                /\ obs.lastAddr = IP_A) =>
                (dnsPc = "returned" /\ dnsResult.primary = IP_A))

\* C24 witness: queries = 2, the answers were A, none, A and the call
\* returned A at the third attempt
C24_Witness ==
    /\ dnsPc = "returned"
    /\ queries = 2
    /\ attempt = 3
    /\ obs.first = IP_A
    /\ obs.last = IP_A
    /\ obs.run = 2
    /\ dnsResult.primary = IP_A

\* ------------------------------------------------------------------------
\* C25: yaml_update changes at most the first matching line and nothing
\* else: when the file has lines of the form <indent><key>: <anything> for
\* the last segment of keyPath, the first of them becomes
\* <same indent><key>: "<newValue>" and every other line of the file is as
\* it was, later lines with the same key included; when it has none the
\* file is as it was.
\* ------------------------------------------------------------------------
RECURSIVE LinesOf(_)
\* the lines of a text, split at "\n"
LinesOf(t) ==
    LET e == LineEnd(t, 1)
    IN  IF e > Len(t) THEN <<t>>
        ELSE <<SubSeq(t, 1, e - 1)>> \o LinesOf(SubSeq(t, e + 1, Len(t)))

\* the blanks a line begins with
LineIndent(l) == SubSeq(l, 1, SkipSpaces(l, 1) - 1)

\* a line of the form <indent><key>: <anything>
IsKeyLine(l, key) ==
    LET q == SkipSpaces(l, 1)
        r == SkipSpaces(l, q + Len(key))
    IN  StartsWithAt(l, q, key) /\ r <= Len(l) /\ l[r] = ":"

C25_FirstLineOnly ==
    \A i \in 1..Len(yamlCalls) :
        LET c == yamlCalls[i]
            key == LastSegment(c.keyPath)
            bl == LinesOf(c.before)
            al == LinesOf(c.after)
            M == {j \in 1..Len(bl) : IsKeyLine(bl[j], key)}
        IN  IF M = {}
            THEN c.after = c.before
            ELSE /\ Len(al) = Len(bl)
                 /\ \A j \in 1..Len(bl) :
                        al[j] = IF j = Min(M)
                                THEN YamlRepl(LineIndent(bl[j]), key, c.newValue)
                                ELSE bl[j]

\* ------------------------------------------------------------------------
\* C26: the loop of main has no turn limit.  Whatever the number of rounds
\* already made, while main awaits the decision service a response with
\* tool calls is taken and starts another round (the number of rounds is
\* held down by nothing but the bound MaxRounds of the model), and main
\* is DONE only after a response without tool calls: a service that asks
\* for a tool call in every response never lets it reach DONE.
\* ------------------------------------------------------------------------
C26_NoTurnLimit ==
    /\ (pc = "AWAITING_MODEL" /\ rounds < MaxRounds) =>
            ENABLED CreateReturnsToolCalls
    /\ pc = "DONE" => (msg.tool_calls = <<>> /\ createCalls = rounds + 1)
    /\ pc = "AWAITING_MODEL" => createCalls = rounds

\* C26 witness: every response so far asked for tool calls, as many rounds
\* as the model allows have been executed and main awaits the service again
C26_Witness ==
    /\ pc = "AWAITING_MODEL"
    /\ rounds = MaxRounds
    /\ createCalls = MaxRounds
    /\ Len(messages) >= 2 + MaxRounds

\* ------------------------------------------------------------------------
\* C27: the conversation sent to the decision service is well-formed with
\* respect to tool calls: in the messages of every create call, each tool
\* message with tool_call_id i comes after an assistant message that
\* carries the tool call with id i.
\* ------------------------------------------------------------------------
C27_ToolCallsRecorded ==
    request # NoResult =>
        \A i \in 1..Len(request.messages) :
            request.messages[i].role = "tool" =>
                \E j \in 1..(i - 1) :
                    /\ request.messages[j].role = "assistant"
                    /\ \E k \in 1..Len(request.messages[j].tool_calls) :
                          request.messages[j].tool_calls[k].id =
                              request.messages[i].tool_call_id

\* ------------------------------------------------------------------------
\* C28: no commit is stranded locally: whenever a git_commit_push call
\* returns {pushed: false, reason: "no changes"}, every commit created by
\* an earlier git_commit_push call has been pushed; after a call whose
\* commit succeeded and whose push failed, the next call does not report
\* "no changes" while that commit is unpushed.
\* ------------------------------------------------------------------------
C28_NoStrandedCommit ==
    \A i \in 1..Len(gitCalls) :
        LET c == gitCalls[i]
        IN  (~c.raised /\ c.result = NoChanges) =>
                c.pushesBefore = c.commitsBefore

\* ------------------------------------------------------------------------
\* C29: no tool-call request aborts the loop of main: whatever the name
\* and the arguments string of a tool call (empty, not valid JSON, wrong
\* parameters) and whatever fails inside the tool, main appends a tool
\* message for the call, goes on to the next call and the next create
\* call, and never raises because of a tool call.
\* ------------------------------------------------------------------------
C29_ToolCallNeverAborts ==
    /\ raisedBy # "json.loads"
    /\ pc = "RAISED" => raisedBy = "create"
    /\ (pc = "EXECUTING_TOOLS" \/ (pc = "AWAITING_MODEL" /\ rounds > 0)) =>
            /\ Len(messages) = baseLen + tcIdx - 1
            /\ \A i \in 1..(tcIdx - 1) :
                    messages[baseLen + i].tool_call_id = msg.tool_calls[i].id

====
